---- MODULE Spec2Model ----
(***************************************************************************)
(* f1_track_animations: the ingestion of src/database/init_db.py           *)
(* (initialize_database, process_race_data, the two insert functions) and  *)
(* the dashboard script of src/streamlit/app.py (main and its reruns),     *)
(* as one state machine over the two DuckDB tables and the Streamlit       *)
(* session state.                                                          *)
(***************************************************************************)
EXTENDS Integers, Sequences, FiniteSets, TLC

\* ------------------------------------------------------------------ bounds

\* initialize_database is run at most this many times against one file
MaxRuns == 2
\* at most this many steps of one race's processing raise
MaxFaults == 1
\* at most this many drivers are classified over all races together
MaxEntries == 2

\* ------------------------------------------------------- program constants

\* init_db.py:11-17 (the first two of the five names; every race is handled
\* by the same code and shares no state with another race but the tables)
RACE_NAMES == << "Monaco Grand Prix", "Italian Grand Prix" >>

YEAR == 2024

\* the keys of driver_dict that the modelled results lists use
driver_dict == { "VER", "HAM" }

\* ------------------------------------------------------------- source data

NaT == -1
NaN == -1
None == [none |-> TRUE]

Races == { RACE_NAMES[i] : i \in 1..Len(RACE_NAMES) }

\* one telemetry sample as get_telemetry() returns it: a position, either
\* coordinate possibly missing (NaN)
Sample(x, y) == [X |-> x, Y |-> y]

\* sampled streams of a lap, after add_distance().reset_index(drop=True)
TelShort == << Sample(0, 0) >>
TelPair  == << Sample(0, 3), Sample(6, 0) >>
TelGap   == << Sample(3, 0), Sample(NaN, 3), Sample(9, 6) >>

\* one row of session.laps
Lap(n, t, timed, tel) ==
    [LapNumber |-> n, LapTime |-> t, Time |-> timed, tel |-> tel]

\* what session.laps.pick_driver(driver) can hold for one driver
DriverLaps ==
    { << Lap(1, NaT, FALSE, TelShort) >>,
      << Lap(1, NaT, TRUE, TelShort) >>,
      << Lap(1, 3, TRUE, TelPair) >>,
      << Lap(1, 4, TRUE, TelPair), Lap(2, 2, TRUE, TelGap) >>,
      << Lap(1, 5, TRUE, TelGap), Lap(2, 5, TRUE, TelPair) >>,
      << Lap(1, NaT, TRUE, TelShort), Lap(2, 3, TRUE, TelPair),
         Lap(3, 6, TRUE, TelShort) >> }

\* the steps of process_race_data that call the API or the database and so can
\* raise: session.load(), and per driver or for the overall lap the telemetry
\* fetch ("tel") and the telemetry insert ("ins")
DriverSteps == { "fastTel", "fastIns", "slowTel", "slowIns" }
OverallSteps == { "overallTel", "overallIns" }

FaultPoints(results) ==
    { << "load", "load" >> }
      \cup { << results[i], s >> : i \in 1..Len(results), s \in DriverSteps }
      \cup { << "overall", s >> : s \in OverallSteps }

\* results['Abbreviation'].tolist(): the classified drivers, in finishing order
ResultLists(codes) ==
    { << >> } \cup { << a >> : a \in codes }
      \cup { << a, b >> : << a, b >> \in { p \in codes \X codes : p[1] # p[2] } }

\* a race as the API serves it: the results list, each listed driver's laps,
\* and the steps that raise when they are run on it
SessionsOver(codes, lapChoices) ==
    UNION { UNION { { [results |-> r, laps |-> l, faults |-> f] :
                        f \in { g \in SUBSET FaultPoints(r) :
                                  Cardinality(g) <= MaxFaults } } :
                      l \in [ { r[i] : i \in 1..Len(r) } -> lapChoices ] } :
              r \in ResultLists(codes) }

Sessions == SessionsOver(driver_dict, DriverLaps)

\* --------------------------------------------------------------- the state

VARIABLES
    api,              \* race name -> the session the API serves for it
    lap_summary,      \* table lap_summary, rows in insertion order
    telemetry,        \* table telemetry, rows in insertion order
    pc,               \* position of the ingestion code
    race_idx,         \* initialize_database: index of `race` in RACE_NAMES
    driver_idx,       \* process_race_data: index of `driver` in driver_codes
    overall_fastest,  \* process_race_data: None or (lap_time, driver, lap)
    runs,             \* completed runs of initialize_database
    app,              \* position of the dashboard script (main) in its run
    widgets,          \* the widgets on the page and their values
    session_state,    \* st.session_state
    locals,           \* main's local variables
    page              \* what the script run has put on the page

dbVars == << lap_summary, telemetry >>
ingestVars == << pc, race_idx, driver_idx, overall_fastest, runs >>
appVars == << app, widgets, session_state, locals, page >>

vars == << api, lap_summary, telemetry, pc, race_idx, driver_idx,
           overall_fastest, runs, app, widgets, session_state, locals, page >>

\* ------------------------------------------------------------ init_db.py

\* insert_lap_summary's conversion of the lap time: Timedelta -> seconds
\* (total_seconds) -> the FLOAT column, which keeps fewer digits than the source
\* value has (here: it drops the last binary digit)
ToFloat(lap_time) == (lap_time \div 2) * 2

SummaryRow(year, race_name, driver_code, lap_category, lap_number, lap_time) ==
    [year |-> year, race_name |-> race_name, driver_code |-> driver_code,
     lap_category |-> lap_category, lap_number |-> lap_number,
     lap_time |-> lap_time]

insert_lap_summary_fixed_category(tbl, year, race_name, driver_code, lap_category, lap_number, lap_time) ==
    Append(tbl, SummaryRow(year, race_name, driver_code, "fastest",
                           lap_number, ToFloat(lap_time)))

\* INSERT INTO lap_summary ... VALUES (...): one row appended
insert_lap_summary(tbl, year, race_name, driver_code, lap_category, lap_number, lap_time) ==
    Append(tbl, SummaryRow(year, race_name, driver_code, lap_category,
                           lap_number, ToFloat(lap_time)))

\* INSERT INTO telemetry SELECT * FROM temp_tel: one row per sample, in order,
\* telemetry_index = the frame's index 0..n-1
insert_telemetry(tbl, df_tel, year, race_name, driver_code, lap_category, lap_number) ==
    tbl \o [ i \in 1..Len(df_tel) |->
               [year |-> year, race_name |-> race_name,
                driver_code |-> driver_code, lap_category |-> lap_category,
                lap_number |-> lap_number, telemetry_index |-> i - 1,
                X |-> df_tel[i].X, Y |-> df_tel[i].Y] ]

\* driver_laps[driver_laps['Time'].notna()]
CompletedLaps(laps) == SelectSeq(laps, LAMBDA l : l.Time)

Timed(laps) == { i \in 1..Len(laps) : laps[i].LapTime # NaT }

\* driver_laps['LapTime'].idxmin(): the first lap with the least lap time,
\* missing lap times skipped; 0 stands for the exception pandas raises (from
\* idxmin or from the .loc[] on its result) when no lap has a lap time
idxmin(laps) ==
    IF Timed(laps) = {} THEN 0
    ELSE CHOOSE i \in Timed(laps) :
           /\ \A j \in Timed(laps) : laps[i].LapTime <= laps[j].LapTime
           /\ \A j \in Timed(laps) :
                laps[j].LapTime = laps[i].LapTime => i <= j

\* driver_laps['LapTime'].idxmax(): the first lap with the greatest lap time
idxmax(laps) ==
    IF Timed(laps) = {} THEN 0
    ELSE CHOOSE i \in Timed(laps) :
           /\ \A j \in Timed(laps) : laps[i].LapTime >= laps[j].LapTime
           /\ \A j \in Timed(laps) :
                laps[j].LapTime = laps[i].LapTime => i <= j

\* line 124: the driver's fastest lap replaces the race's best so far
BeatsOverall(lap_time_fast, best) ==
    best = None \/ lap_time_fast < best.lap_time

AfterDriver_break(i, n) == n + 1

\* where the driver loop goes after an iteration: `continue` on the "no valid
\* laps" path and in the except clause, the loop's own step otherwise
AfterDriver(i, n) == i + 1

\* where initialize_database goes after a race, processed or failed
AfterRace(i, n) == i + 1

Db(summary, tel, best) ==
    [lap_summary |-> summary, telemetry |-> tel, overall_fastest |-> best]

\* the try block of lines 105-129 for one driver with completed laps: the
\* tables and overall_fastest as the block leaves them, also when a step raises
ProcessLaps(db, race_name, driver, driver_laps, faults) ==
    IF idxmin(driver_laps) = 0 THEN db
    ELSE
    LET fastest_lap == driver_laps[idxmin(driver_laps)]
        slowest_lap == driver_laps[idxmax(driver_laps)]
        s1 == insert_lap_summary(db.lap_summary, YEAR, race_name, driver,
                  "fastest", fastest_lap.LapNumber, fastest_lap.LapTime)
        t1 == insert_telemetry(db.telemetry, fastest_lap.tel, YEAR, race_name,
                  driver, "fastest", fastest_lap.LapNumber)
        s2 == insert_lap_summary(s1, YEAR, race_name, driver,
                  "slowest", slowest_lap.LapNumber, slowest_lap.LapTime)
        t2 == insert_telemetry(t1, slowest_lap.tel, YEAR, race_name,
                  driver, "slowest", slowest_lap.LapNumber)
    IN  IF << driver, "fastTel" >> \in faults THEN db
        ELSE IF << driver, "fastIns" >> \in faults
               THEN Db(s1, db.telemetry, db.overall_fastest)
        ELSE IF << driver, "slowTel" >> \in faults
               THEN Db(s1, t1, db.overall_fastest)
        ELSE IF << driver, "slowIns" >> \in faults
               THEN Db(s2, t1, db.overall_fastest)
        ELSE Db(s2, t2,
                IF BeatsOverall(fastest_lap.LapTime, db.overall_fastest)
                  THEN [lap_time |-> fastest_lap.LapTime, driver |-> driver,
                        lap |-> fastest_lap]
                  ELSE db.overall_fastest)

\* lines 132-141: the overall-fastest lap, stored a second time
ProcessOverallLap(db, race_name, faults) ==
    IF db.overall_fastest = None THEN db
    ELSE
    LET o == db.overall_fastest
        s1 == insert_lap_summary(db.lap_summary, YEAR, race_name, o.driver,
                  "overall", o.lap.LapNumber, o.lap_time)
        t1 == insert_telemetry(db.telemetry, o.lap.tel, YEAR, race_name,
                  o.driver, "overall", o.lap.LapNumber)
    IN  IF << "overall", "overallTel" >> \in faults THEN db
        ELSE IF << "overall", "overallIns" >> \in faults
               THEN Db(s1, db.telemetry, o)
        ELSE Db(s1, t1, o)

race == RACE_NAMES[race_idx]
session == api[race]
driver_codes == session.results

create_tables_replace(tbl) == << >>

\* CREATE TABLE IF NOT EXISTS: a table that exists keeps its rows
create_tables(tbl) == tbl

\* initialize_database, lines 145-146: the connection is opened and
\* create_tables runs
InitializeDatabase ==
    /\ pc = "idle"
    /\ pc' = "race"
    /\ race_idx' = 1
    /\ lap_summary' = create_tables(lap_summary)
    /\ telemetry' = create_tables(telemetry)
    /\ UNCHANGED << api, driver_idx, overall_fastest, runs >>

\* python init_db.py (lines 176-177), while no dashboard run is in progress
RunInitDb ==
    /\ app = "off"
    /\ runs < MaxRuns
    /\ InitializeDatabase
    /\ UNCHANGED appVars

\* process_race_data, lines 89-95, called from the loop of line 148: the
\* session is loaded; when that raises, the except clause of line 161 moves on
\* to the next race
LoadSession ==
    /\ pc = "race"
    /\ race_idx <= Len(RACE_NAMES)
    /\ IF << "load", "load" >> \in session.faults
         THEN /\ race_idx' = AfterRace(race_idx, Len(RACE_NAMES))
              /\ UNCHANGED << pc, driver_idx, overall_fastest >>
         ELSE /\ pc' = "drivers"
              /\ driver_idx' = 1
              /\ overall_fastest' = None
              /\ UNCHANGED race_idx
    /\ UNCHANGED << api, lap_summary, telemetry, runs >>
    /\ UNCHANGED appVars

\* one iteration of the driver loop, lines 97-129
ProcessDriver ==
    /\ pc = "drivers"
    /\ driver_idx <= Len(driver_codes)
    /\ LET driver == driver_codes[driver_idx]
           driver_laps == CompletedLaps(session.laps[driver])
           db == IF driver_laps = << >>
                   THEN Db(lap_summary, telemetry, overall_fastest)
                   ELSE ProcessLaps(Db(lap_summary, telemetry, overall_fastest),
                                    race, driver, driver_laps, session.faults)
       IN  /\ lap_summary' = db.lap_summary
           /\ telemetry' = db.telemetry
           /\ overall_fastest' = db.overall_fastest
    /\ driver_idx' = AfterDriver(driver_idx, Len(driver_codes))
    /\ UNCHANGED << api, pc, race_idx, runs >>
    /\ UNCHANGED appVars

\* lines 131-141 and the return to initialize_database's loop (lines 153-159
\* only count rows)
ProcessOverall ==
    /\ pc = "drivers"
    /\ driver_idx > Len(driver_codes)
    /\ LET db == ProcessOverallLap(Db(lap_summary, telemetry, overall_fastest),
                                   race, session.faults)
       IN  /\ lap_summary' = db.lap_summary
           /\ telemetry' = db.telemetry
    /\ pc' = "race"
    /\ race_idx' = AfterRace(race_idx, Len(RACE_NAMES))
    /\ UNCHANGED << api, driver_idx, overall_fastest, runs >>
    /\ UNCHANGED appVars

\* lines 165-174: the final count, con.close()
FinishRun ==
    /\ pc = "race"
    /\ race_idx > Len(RACE_NAMES)
    /\ pc' = "idle"
    /\ runs' = runs + 1
    /\ UNCHANGED << api, lap_summary, telemetry, race_idx, driver_idx,
                    overall_fastest >>
    /\ UNCHANGED appVars

Entries(a) ==
    LET n[i \in 0..Len(RACE_NAMES)] ==
          IF i = 0 THEN 0 ELSE n[i - 1] + Len(a[RACE_NAMES[i]].results)
    IN  n[Len(RACE_NAMES)]

\* ----------------------------------------------------------------- app.py

\* line 178
interpolation_factor == 3

\* the step of the play loop's range(), line 294
PlayStep == 10

NoLocals ==
    [selected_race |-> "", selected_driver |-> "", selected_lap_number |-> 0,
     selected_tel |-> << >>, fastest_tel |-> << >>, fastest_driver |-> "",
     frame_count |-> 0, frame_idx |-> 0, frame |-> 0]

\* errors: the st.error messages shown; slider_call: the arguments st.slider
\* was called with; slider: the frame slider was created;
\* drawn: the frames plotted, in order; markers: the two markers of the last
\* plot; loop: the play loop was entered; uncaught: an exception left main
BlankPage ==
    [errors |-> {}, slider_call |-> None, slider |-> FALSE, drawn |-> << >>,
     markers |-> None, loop |-> FALSE, uncaught |-> FALSE]

\* the page before the first script run: the race selectbox at its first option
NoWidgets ==
    [race |-> RACE_NAMES[1], driver |-> None, lap |-> None, var |-> FALSE,
     play |-> "", restart |-> FALSE, slider |-> None]

\* get_drivers' query, lines 90-94: SELECT DISTINCT driver_code. The function
\* is under st.cache_data, and so is get_lap_options: the tables do not change
\* while the page is open, so the cached answer is the query's answer
get_drivers(race_name) ==
    { lap_summary[i].driver_code : i \in
        { k \in 1..Len(lap_summary) : /\ lap_summary[k].year = 2024
                                      /\ lap_summary[k].race_name = race_name } }

\* get_lap_options' query, lines 112-116
get_lap_options(race_name, driver_code) ==
    SelectSeq(lap_summary, LAMBDA row : /\ row.year = 2024
                                        /\ row.race_name = race_name
                                        /\ row.driver_code = driver_code)

\* lap_df[lap_df['lap_category'] == category], lines 126-127
OfCategory(lap_df, category) ==
    SelectSeq(lap_df, LAMBDA row : row.lap_category = category)

\* the telemetry query of lines 145-148 and 162-165
TelemetryQuery(race_name, driver_code, lap_number) ==
    SelectSeq(telemetry, LAMBDA row : /\ row.year = 2024
                                      /\ row.race_name = race_name
                                      /\ row.driver_code = driver_code
                                      /\ row.lap_number = lap_number)

\* the query for the race's overall-fastest lap, lines 150-153
OverallQuery(race_name) ==
    SelectSeq(lap_summary, LAMBDA row : /\ row.year = 2024
                                        /\ row.race_name = race_name
                                        /\ row.lap_category = "overall")

\* tel[['X', 'Y']].dropna().index.to_numpy(): the positions (from 0) of the
\* rows with both coordinates, in order
Valid(tel) ==
    LET keep[i \in 0..Len(tel)] ==
          IF i = 0 THEN << >>
          ELSE IF tel[i].X # NaN /\ tel[i].Y # NaN
                 THEN Append(keep[i - 1], i - 1)
                 ELSE keep[i - 1]
    IN  keep[Len(tel)]

Min(a, b) == IF a <= b THEN a ELSE b

\* line 174
FrameCount(selected_tel, fastest_tel) ==
    Min(Len(Valid(selected_tel)), Len(Valid(fastest_tel)))

\* line 222: int(frame_idx / interpolation_factor)
prev_idx(frame_idx) == frame_idx \div interpolation_factor

\* line 223
next_idx(frame_idx, frame_count) == Min(prev_idx(frame_idx) + 1, frame_count - 1)

\* line 224, alpha = idx - prev_idx, as the number of thirds
alpha3(frame_idx) == frame_idx - interpolation_factor * prev_idx(frame_idx)

Interpolate_swapped(a, prev, next) == a * prev + (interpolation_factor - a) * next

\* (1 - alpha) * prev + alpha * next of lines 229-236, times
\* interpolation_factor to stay in the integers
Interpolate(a, prev, next) == (interpolation_factor - a) * prev + a * next

\* the marker of one car in create_frame_plot, lines 227-230 and 233-236:
\* tel.iloc[valid[prev_idx]] and tel.iloc[valid[next_idx]] interpolated
Marker(tel, frame_idx, frame_count) ==
    LET valid == Valid(tel)
        p == tel[valid[prev_idx(frame_idx) + 1] + 1]
        n == tel[valid[next_idx(frame_idx, frame_count) + 1] + 1]
    IN  [x |-> Interpolate(alpha3(frame_idx), p.X, n.X),
         y |-> Interpolate(alpha3(frame_idx), p.Y, n.Y)]

\* create_frame_plot, lines 206-263, as far as the markers go; l holds the
\* variables of main that the closure reads
create_frame_plot(frame_idx, l) ==
    [frame |-> frame_idx,
     selected |-> Marker(l.selected_tel, frame_idx, l.frame_count),
     fastest |-> Marker(l.fastest_tel, frame_idx, l.frame_count)]

except_BaseException(exc) == TRUE

\* what `except Exception` of line 303 catches: st.stop() raises Streamlit's
\* StopException, a BaseException that is no Exception
except_Exception(exc) == exc # "StopException"

TogglePlaying_set(is_playing) == TRUE

\* line 276
TogglePlaying(is_playing) == ~is_playing

\* line 275: the label of the play/pause button
PlayLabel(is_playing) ==
    IF is_playing THEN "Pause Animation" ELSE "Play Animation"

SliderMax(frame_count) == frame_count * interpolation_factor - 1

\* range(start, stop, PlayStep) of line 294 is not exhausted at `frame`
InRange(frame, frame_count) == frame < frame_count * interpolation_factor

\* ---- one script run of main, as a chain of steps over the run's state
\* r = [app, widgets, session_state, locals, page]; r.app names the next step,
\* "idle" when the run is over, and a step leaves a run alone that is over

\* the widgets created from line 105 on are not on the page of a run that
\* stopped before them
Without(w, names) ==
    [k \in DOMAIN w |->
       IF k \notin names THEN w[k]
       ELSE IF k \in { "var", "restart" } THEN FALSE
       ELSE IF k = "play" THEN "" ELSE None]

\* the run ends here: st.stop(), or an exception that leaves main
EndRun(r, p, w) == [r EXCEPT !.app = "idle", !.page = p, !.widgets = w]

\* an exception raised in the try block of lines 142-301 meets the except
\* clause of lines 303-305: the generic message and st.stop() when it is caught
Raise(r, exc, p, w) ==
    IF except_Exception(exc)
      THEN EndRun(r, [p EXCEPT !.errors = @ \cup { "An error occurred" }], w)
      ELSE EndRun(r, [p EXCEPT !.uncaught = (exc # "StopException")], w)

\* the options the driver selectbox of line 105 can come up with: its value
\* when its options are the ones it had, its first option otherwise (SELECT
\* DISTINCT gives no order: any of them)
DriverChoices(w) ==
    LET codes == get_drivers(w.race)
    IN  IF codes = {} THEN { "" }
        ELSE IF w.driver # None /\ w.driver.options = codes
               THEN { w.driver.value }
        ELSE codes

\* lines 84-106: the race selectbox, get_drivers and the driver selectbox, all
\* outside every try block; `raises` names the database access that fails in
\* this run, if one does
MainDrivers(r, raises, pick) ==
    LET selected_race == r.widgets.race
        codes == get_drivers(selected_race)
        later == { "driver", "lap", "var", "play", "restart", "slider" }
    IN  IF raises = "get_drivers" \/ codes \ driver_dict # {}
          THEN \* get_db_connection raises, or driver_dict[code] a KeyError
               EndRun(r, [r.page EXCEPT !.uncaught = TRUE],
                      Without(r.widgets, later))
        ELSE IF codes = {}
          THEN EndRun(r, [r.page EXCEPT !.errors = @ \cup { "No drivers found" }],
                      Without(r.widgets, later))
        ELSE [r EXCEPT
                !.app = "laps",
                !.widgets.driver = [options |-> codes, value |-> pick],
                !.locals.selected_race = selected_race,
                !.locals.selected_driver = pick]

\* lines 108-139: get_lap_options, the lap selectbox and the channel selectbox
MainLaps(r, raises) ==
    IF r.app # "laps" THEN r ELSE
    LET lap_df == get_lap_options(r.locals.selected_race,
                                  r.locals.selected_driver)
        fastest == OfCategory(lap_df, "fastest")
        slowest == OfCategory(lap_df, "slowest")
        later == { "lap", "var", "play", "restart", "slider" }
        options == << fastest[1].lap_number, slowest[1].lap_number >>
        k == IF r.widgets.lap # None /\ r.widgets.lap.options = options
               THEN r.widgets.lap.value ELSE 1
    IN  IF raises = "get_lap_options"
          THEN EndRun(r, [r.page EXCEPT !.uncaught = TRUE],
                      Without(r.widgets, later))
        ELSE IF lap_df = << >>
          THEN EndRun(r, [r.page EXCEPT !.errors = @ \cup { "No laps found" }],
                      Without(r.widgets, later))
        ELSE IF fastest = << >> \/ slowest = << >>
          THEN \* .iloc[0] raises IndexError, caught at line 134
               EndRun(r, [r.page EXCEPT !.errors =
                            @ \cup { "Could not find fastest/slowest laps" }],
                      Without(r.widgets, later))
        ELSE [r EXCEPT
                !.app = "queries",
                !.widgets.lap = [options |-> options, value |-> k],
                !.widgets.var = TRUE,
                !.locals.selected_lap_number = options[k]]

\* lines 142-179: the three queries and the frame count
MainQueries(r, raises) ==
    IF r.app # "queries" THEN r ELSE
    LET selected_tel == TelemetryQuery(r.locals.selected_race,
                            r.locals.selected_driver,
                            r.locals.selected_lap_number)
        fastest_driver_df == OverallQuery(r.locals.selected_race)
        fastest_tel == TelemetryQuery(r.locals.selected_race,
                           fastest_driver_df[1].driver_code,
                           fastest_driver_df[1].lap_number)
        later == { "play", "restart", "slider" }
    IN  IF raises = "telemetry"
          THEN Raise(r, "IOException", r.page, Without(r.widgets, later))
        ELSE IF fastest_driver_df = << >>
          THEN \* st.error and st.stop() of lines 156-157, inside the try
               Raise(r, "StopException",
                     [r.page EXCEPT !.errors =
                        @ \cup { "No overall fastest lap found" }],
                     Without(r.widgets, later))
        ELSE [r EXCEPT
                !.app = "controls",
                !.locals.selected_tel = selected_tel,
                !.locals.fastest_driver = fastest_driver_df[1].driver_code,
                !.locals.fastest_tel = fastest_tel,
                !.locals.frame_count = FrameCount(selected_tel, fastest_tel)]

\* lines 266-281: the session state is initialised, then the play/pause and
\* the restart button. A button is the one that was clicked when it is created
\* with the label the clicked button had
MainControls(r, event) ==
    IF r.app # "controls" THEN r ELSE
    LET is_playing == IF "is_playing" \in DOMAIN r.session_state
                        THEN r.session_state.is_playing ELSE FALSE
        current_frame == IF "current_frame" \in DOMAIN r.session_state
                           THEN r.session_state.current_frame ELSE 0
        label == PlayLabel(is_playing)
        play_clicked == event.type = "play" /\ event.label = label
        toggled == IF play_clicked THEN TogglePlaying(is_playing)
                   ELSE is_playing
    IN  [r EXCEPT
           !.app = "slider",
           !.session_state =
              IF event.type = "restart"
                THEN [is_playing |-> FALSE, current_frame |-> 0]
                ELSE [is_playing |-> toggled, current_frame |-> current_frame],
           !.widgets.play = label,
           !.widgets.restart = TRUE]

\* lines 284-286: st.slider(label, 0, max, current_frame) raises when the value
\* is not within 0..max; it returns the dragged value when it is the slider
\* that was dragged (same bounds, same default), its default otherwise
MainSlider(r, event) ==
    IF r.app # "slider" THEN r ELSE
    LET max == SliderMax(r.locals.frame_count)
        current_frame == r.session_state.current_frame
        dragged == /\ event.type = "slider"
                   /\ event.max = max
                   /\ event.default = current_frame
        frame_idx == IF dragged THEN event.value ELSE current_frame
        called == [r.page EXCEPT !.slider_call =
                     [min |-> 0, max |-> max, value |-> current_frame]]
    IN  IF current_frame \notin 0..max
          THEN Raise(r, "StreamlitAPIException", called,
                     Without(r.widgets, { "slider" }))
        ELSE [r EXCEPT
                !.app = "plot",
                !.widgets.slider = [max |-> max, default |-> current_frame],
                !.locals.frame_idx = frame_idx,
                !.session_state.current_frame = frame_idx,
                !.page = [called EXCEPT !.slider = TRUE]]

\* lines 288-294: the frame of the slider is drawn; the play loop is entered
\* when is_playing is set
MainPlot(r) ==
    IF r.app # "plot" THEN r ELSE
    LET fig == create_frame_plot(r.locals.frame_idx, r.locals)
    IN  [r EXCEPT
           !.app = IF r.session_state.is_playing THEN "loop" ELSE "idle",
           !.page.drawn = Append(@, fig.frame),
           !.page.markers = fig,
           !.page.loop = r.session_state.is_playing,
           !.locals.frame = r.session_state.current_frame]

\* the database accesses of a run that can raise
Accesses == { "get_drivers", "get_lap_options", "telemetry" }

\* lines 79-294 of main: one script run, started by `event` with the widget
\* values w, from the race selectbox to the first plot or to the step that
\* stops it. main is entered with fresh locals and an empty page
Main(event, w) ==
    /\ pc = "idle"
    /\ runs > 0
    /\ \E raises \in Accesses \cup { "none" }, pick \in DriverChoices(w) :
       \E r1 \in { MainDrivers([app |-> "drivers", widgets |-> w,
                                session_state |-> session_state,
                                locals |-> NoLocals, page |-> BlankPage],
                               raises, pick) } :
       \E r2 \in { MainLaps(r1, raises) } :
       \E r3 \in { MainQueries(r2, raises) } :
       \E r4 \in { MainControls(r3, event) } :
       \E r5 \in { MainSlider(r4, event) } :
       \E r6 \in { MainPlot(r5) } :
         /\ app' = r6.app
         /\ widgets' = r6.widgets
         /\ session_state' = r6.session_state
         /\ locals' = r6.locals
         /\ page' = r6.page
    /\ UNCHANGED << api, dbVars, ingestVars >>

\* ensure_database_exists, lines 54-62 and 77, in the first script run:
\* initialize_database runs when the database file is not there
EnsureDatabaseExists ==
    /\ app = "ensure"
    /\ pc = "idle"
    /\ runs = 0
    /\ InitializeDatabase
    /\ UNCHANGED appVars

\* the first script run of the session, once the database is there
PageLoad ==
    /\ app = "ensure"
    /\ Main([type |-> "load"], widgets)

\* ---- the UI events. An event reruns the script: when the last run is over,
\* and while the play loop runs (the running script is dropped at its next
\* redraw and the new run starts)

Interactive == app \in { "idle", "loop" }

SelectRace ==
    /\ Interactive
    /\ \E r \in Races \ { widgets.race } :
         Main([type |-> "race"], [widgets EXCEPT !.race = r])

SelectDriver ==
    /\ Interactive
    /\ widgets.driver # None
    /\ \E d \in widgets.driver.options \ { widgets.driver.value } :
         Main([type |-> "driver"], [widgets EXCEPT !.driver.value = d])

SelectLap ==
    /\ Interactive
    /\ widgets.lap # None
    /\ \E k \in { 1, 2 } \ { widgets.lap.value } :
         Main([type |-> "lap"], [widgets EXCEPT !.lap.value = k])

\* another telemetry channel: the colours of the track line change, nothing
\* else of the run does
SelectVar ==
    /\ Interactive
    /\ widgets.var
    /\ Main([type |-> "var"], widgets)

ClickPlayPause ==
    /\ Interactive
    /\ widgets.play # ""
    /\ Main([type |-> "play", label |-> widgets.play], widgets)

ClickRestart ==
    /\ Interactive
    /\ widgets.restart
    /\ Main([type |-> "restart"], widgets)

DragSlider ==
    /\ Interactive
    /\ widgets.slider # None
    /\ \E v \in 0..widgets.slider.max :
         Main([type |-> "slider", max |-> widgets.slider.max,
               default |-> widgets.slider.default, value |-> v], widgets)

NextFrame_single(frame) == frame + 1

\* the value range() of line 294 yields after `frame`
NextFrame(frame) == frame + PlayStep

\* one iteration of the play loop, lines 294-301, or its end
MainLoop ==
    /\ app = "loop"
    /\ IF InRange(locals.frame, locals.frame_count) /\ session_state.is_playing
         THEN LET fig == create_frame_plot(locals.frame, locals)
              IN  /\ session_state' =
                       [session_state EXCEPT !.current_frame = locals.frame]
                  /\ page' = [page EXCEPT !.drawn = Append(@, fig.frame),
                                          !.markers = fig]
                  /\ locals' = [locals EXCEPT !.frame = NextFrame(@)]
                  /\ UNCHANGED app
         ELSE /\ app' = "idle"
              /\ UNCHANGED << session_state, page, locals >>
    /\ UNCHANGED << api, dbVars, ingestVars, widgets >>

InitDb ==
    /\ lap_summary = << >>
    /\ telemetry = << >>
    /\ pc = "idle"
    /\ race_idx = 1
    /\ driver_idx = 1
    /\ overall_fastest = None
    /\ runs = 0

InitPage ==
    /\ widgets = NoWidgets
    /\ session_state = << >>
    /\ locals = NoLocals
    /\ page = BlankPage

\* the ingestion script alone, run up to MaxRuns times on one database file
Init ==
    /\ api \in { a \in [Races -> Sessions] : Entries(a) <= MaxEntries }
    /\ InitDb
    /\ InitPage
    /\ app = "off"

Next ==
    \/ RunInitDb
    \/ LoadSession
    \/ ProcessDriver
    \/ ProcessOverall
    \/ FinishRun

Spec == Init /\ [][Next]_vars

\* the races the API serves to the ingestion that the dashboard starts: a race
\* that does not load; one classified driver with one lap, stored in full, or
\* up to the fastest lap only, or without the overall lap; two drivers, the
\* first with two laps; a driver driver_dict does not list
OneLap == << Lap(1, 3, TRUE, TelShort) >>

Absent == [results |-> << >>, laps |-> << >>, faults |-> { << "load", "load" >> }]

Solo(faults) ==
    [results |-> << "VER" >>, laps |-> [d \in { "VER" } |-> OneLap],
     faults |-> faults]

Duo ==
    [results |-> << "HAM", "VER" >>,
     laps |-> [d \in { "HAM", "VER" } |->
                 IF d = "HAM"
                   THEN << Lap(1, 4, TRUE, TelPair), Lap(2, 2, TRUE, TelGap) >>
                   ELSE << Lap(1, 3, TRUE, TelPair) >>],
     faults |-> {}]

Reserve ==
    [results |-> << "BEA" >>, laps |-> [d \in { "BEA" } |-> OneLap],
     faults |-> {}]

AppSessions ==
    { Absent, Solo({}), Solo({ << "VER", "slowTel" >> }),
      Solo({ << "overall", "overallTel" >> }), Duo, Reserve }

\* the dashboard: a browser session opens the page on a machine without a
\* database file, and the user then works the widgets
InitApp ==
    /\ api \in { a \in [Races -> AppSessions] : Entries(a) <= MaxEntries }
    /\ InitDb
    /\ InitPage
    /\ app = "ensure"

NextApp ==
    \/ EnsureDatabaseExists
    \/ LoadSession
    \/ ProcessDriver
    \/ ProcessOverall
    \/ FinishRun
    \/ PageLoad
    \/ MainLoop
    \/ SelectRace
    \/ SelectDriver
    \/ SelectLap
    \/ SelectVar
    \/ ClickPlayPause
    \/ ClickRestart
    \/ DragSlider

SpecApp == InitApp /\ [][NextApp]_vars

\* a UI event of a user who leaves the page alone while the animation plays
IdleEvent ==
    /\ app = "idle"
    /\ \/ SelectRace
       \/ SelectDriver
       \/ SelectLap
       \/ SelectVar
       \/ ClickPlayPause
       \/ ClickRestart
       \/ DragSlider

NextPlay ==
    \/ EnsureDatabaseExists
    \/ LoadSession
    \/ ProcessDriver
    \/ ProcessOverall
    \/ FinishRun
    \/ PageLoad
    \/ MainLoop
    \/ IdleEvent

\* the dashboard with no UI event during the play loop: the script thread
\* runs the loop of lines 294-301 on its own, each iteration returns
SpecPlay == InitApp /\ [][NextPlay]_vars /\ WF_vars(MainLoop)

\* ------------------------------------------------------ claims: ingestion

RaceIndex(r) == CHOOSE i \in 1..Len(RACE_NAMES) : RACE_NAMES[i] = r

Loaded(r) == << "load", "load" >> \notin api[r].faults

Listed(r) == { api[r].results[i] : i \in 1..Len(api[r].results) }

\* number of rows of a table that satisfy P
Count(tbl, P(_)) == Cardinality({ i \in 1..Len(tbl) : P(tbl[i]) })

SummaryRows(r, d, cat) ==
    Count(lap_summary, LAMBDA row : /\ row.year = YEAR
                                    /\ row.race_name = r
                                    /\ row.driver_code = d
                                    /\ row.lap_category = cat)

RaceRows(r, cat) ==
    { i \in 1..Len(lap_summary) : /\ lap_summary[i].year = YEAR
                                  /\ lap_summary[i].race_name = r
                                  /\ lap_summary[i].lap_category = cat }

\* process_race_data has run exactly once for race r, on a database that was
\* empty when the run began
ProcessedOnce(r) ==
    \/ runs = 0 /\ pc \in { "race", "drivers" } /\ race_idx > RaceIndex(r)
    \/ runs = 1 /\ pc = "idle"

HasCompletedLap(r, d) == CompletedLaps(api[r].laps[d]) # << >>

\* no step of driver d's processing raises: a lap time to select by exists and
\* neither telemetry fetch nor telemetry insert fails
DriverSucceeds(r, d) ==
    /\ HasCompletedLap(r, d)
    /\ idxmin(CompletedLaps(api[r].laps[d])) # 0
    /\ \A s \in DriverSteps : << d, s >> \notin api[r].faults

\* C1 as stated: after one run of process_race_data on an empty database every
\* driver with a completed lap has exactly one 'fastest' and exactly one
\* 'slowest' summary row, whatever the per-driver steps did
C1_AsClaimed ==
    \A r \in Races : ProcessedOnce(r) /\ Loaded(r) =>
        \A d \in Listed(r) : HasCompletedLap(r, d) =>
            /\ SummaryRows(r, d, "fastest") = 1
            /\ SummaryRows(r, d, "slowest") = 1

\* C1 amended: after one run of process_race_data on an empty database a driver
\* with a completed lap has exactly one 'fastest' and exactly one 'slowest'
\* summary row when none of that driver's steps raises; a driver whose
\* processing raised keeps the rows inserted before the failure: at most one
\* 'fastest' row, at most one 'slowest' row, and no 'slowest' row without a
\* 'fastest' one
C1_OneFastestOneSlowest ==
    \A r \in Races : ProcessedOnce(r) /\ Loaded(r) =>
        \A d \in Listed(r) : HasCompletedLap(r, d) =>
            /\ DriverSucceeds(r, d) =>
                 /\ SummaryRows(r, d, "fastest") = 1
                 /\ SummaryRows(r, d, "slowest") = 1
            /\ SummaryRows(r, d, "fastest") <= 1
            /\ SummaryRows(r, d, "slowest") <= SummaryRows(r, d, "fastest")

\* a race processed once in which a driver's two rows are there although an
\* earlier driver of the same race failed
C1_Witness ==
    \E r \in Races :
        /\ ProcessedOnce(r) /\ Loaded(r)
        /\ \E d \in Listed(r) :
             /\ DriverSucceeds(r, d)
             /\ SummaryRows(r, d, "fastest") = 1
             /\ SummaryRows(r, d, "slowest") = 1
        /\ \E d \in Listed(r) :
             /\ HasCompletedLap(r, d) /\ ~DriverSucceeds(r, d)
             /\ SummaryRows(r, d, "fastest") = 1
             /\ SummaryRows(r, d, "slowest") = 0

\* neither step of the overall-fastest lap (lines 136, 139) raises
OverallSucceeds(r) == \A s \in OverallSteps : << "overall", s >> \notin api[r].faults

\* C2 as stated: after one run of process_race_data on an empty database, a
\* race with at least one 'fastest' row has exactly one 'overall' row, and its
\* lap_time is the least lap_time of the race's 'fastest' rows, whatever the
\* per-driver steps did (the overall lap's own fetch and insert succeeding)
C2_OverallIsMinFastest ==
    \A r \in Races :
      ProcessedOnce(r) /\ OverallSucceeds(r) /\ RaceRows(r, "fastest") # {} =>
        /\ Cardinality(RaceRows(r, "overall")) = 1
        /\ \A o \in RaceRows(r, "overall") :
             /\ \A f \in RaceRows(r, "fastest") :
                  lap_summary[o].lap_time <= lap_summary[f].lap_time
             /\ \E f \in RaceRows(r, "fastest") :
                  lap_summary[o].lap_time = lap_summary[f].lap_time

\* C3: whatever fails for a driver or for a race, every later driver and every
\* later race is still processed: once a run of initialize_database is over,
\* each driver whose own steps succeed, in each race whose session loads, has
\* a 'fastest' and a 'slowest' row from every run
C3_FailuresAreSkipped ==
    pc = "idle" /\ runs >= 1 =>
        \A r \in Races : Loaded(r) =>
            \A d \in Listed(r) : DriverSucceeds(r, d) =>
                /\ SummaryRows(r, d, "fastest") = runs
                /\ SummaryRows(r, d, "slowest") = runs

Failed(r, d) == ~DriverSucceeds(r, d)

\* a finished run in which a driver was stored although the driver before it in
\* the results list failed, or a race was stored although the race before it
\* failed to load
C3_Witness ==
    /\ pc = "idle" /\ runs >= 1
    /\ \/ \E r \in Races :
            /\ Loaded(r) /\ Len(api[r].results) = 2
            /\ Failed(r, api[r].results[1])
            /\ SummaryRows(r, api[r].results[2], "slowest") = runs
       \/ /\ ~Loaded(RACE_NAMES[1])
          /\ RaceRows(RACE_NAMES[2], "slowest") # {}

IsPrefix(s, t) == Len(s) <= Len(t) /\ SubSeq(t, 1, Len(s)) = s

\* t is s repeated n times
IsRepeated(t, n) ==
    /\ Len(t) % n = 0
    /\ \A i \in 1..Len(t) : t[i] = t[((i - 1) % (Len(t) \div n)) + 1]

Copies(tbl, row) == Count(tbl, LAMBDA x : x = row)

\* C4: no step removes or changes a stored row (each table only grows at its
\* end), and after n runs of initialize_database on the same source data with
\* the same outcomes each table is one run's rows n times over, every row of
\* a run present exactly n times
C4_AppendOnlyNotIdempotent ==
    /\ [][IsPrefix(lap_summary, lap_summary')
            /\ IsPrefix(telemetry, telemetry')]_vars
    /\ [](pc = "idle" /\ runs >= 1 =>
            /\ IsRepeated(lap_summary, runs)
            /\ IsRepeated(telemetry, runs)
            /\ \A i \in 1..Len(lap_summary) :
                 Copies(lap_summary, lap_summary[i]) = runs
            /\ \A i \in 1..Len(telemetry) :
                 Copies(telemetry, telemetry[i]) = runs)

\* two finished runs that left rows in both tables
C4_Witness ==
    /\ pc = "idle" /\ runs = 2
    /\ Len(lap_summary) >= 4
    /\ Len(telemetry) >= 4

\* ------------------------------------------------------ claims: dashboard

\* a script run of main has taken place
Ran == app \in { "idle", "loop" }

EmptyResultMessages ==
    { "No drivers found", "No laps found", "No overall fastest lap found" }

\* C5: a run whose distinct-drivers query, lap-options query or overall-row
\* query is empty shows the message of that case and stops: that message is
\* the only one on the page (no generic 'An error occurred'), no frame slider
\* was created, nothing was plotted and the play loop was not entered
C5_EmptyResultStops ==
    /\ page.errors \cap EmptyResultMessages # {} =>
         /\ Cardinality(page.errors) = 1
         /\ page.slider_call = None
         /\ ~page.slider
         /\ page.drawn = << >>
         /\ page.markers = None
         /\ ~page.loop
         /\ ~page.uncaught
         /\ app = "idle"
    /\ Ran /\ ~page.uncaught /\ get_drivers(widgets.race) = {} =>
         "No drivers found" \in page.errors
    /\ Ran /\ ~page.uncaught /\ widgets.driver # None
           /\ get_lap_options(widgets.race, widgets.driver.value) = << >> =>
         "No laps found" \in page.errors
    /\ Ran /\ widgets.var /\ OverallQuery(widgets.race) = << >>
           /\ "An error occurred" \notin page.errors =>
         "No overall fastest lap found" \in page.errors

\* a run stopped at the empty overall-row query, of a race that has drivers
\* and laps to choose from
C5_Witness ==
    /\ page.errors = { "No overall fastest lap found" }
    /\ widgets.lap # None
    /\ app = "idle"

\* C6: no exception raised on the render path leaves main uncaught: each one
\* is caught at the top level and shown as 'An error occurred'
C6_NoExceptionEscapes ==
    page.uncaught => "An error occurred" \in page.errors

\* the valid sample of `tel` at position i of its valid-index array
ValidSample(tel, i) == tel[Valid(tel)[i + 1] + 1]

Between(v, a, b) == (a <= v /\ v <= b) \/ (b <= v /\ v <= a)

\* the marker m of `tel` at frame f lies where weight (f mod 3)/3 puts it on
\* the segment from valid sample p = f div 3 to valid sample n
LiesOnSegment(m, tel, f, frame_count) ==
    LET p == f \div 3
        n == Min(p + 1, frame_count - 1)
        a == f % 3
        P == ValidSample(tel, p)
        N == ValidSample(tel, n)
    IN  /\ p \in 0..(frame_count - 1)
        /\ n \in 0..(frame_count - 1)
        /\ m.x = 3 * P.X + a * (N.X - P.X)
        /\ m.y = 3 * P.Y + a * (N.Y - P.Y)
        /\ Between(m.x, 3 * P.X, 3 * N.X)
        /\ Between(m.y, 3 * P.Y, 3 * N.Y)
        /\ a = 0 => m.x = 3 * P.X /\ m.y = 3 * P.Y

\* C7: every plotted frame f is within 0 .. 3*frame_count-1, and both markers
\* are the linear interpolation between valid samples p = f div 3 and
\* n = min(p+1, frame_count-1) with weight (f mod 3)/3: p and n are valid
\* positions, at weight 0 the marker is sample p, and the marker never leaves
\* the segment from p to n (coordinates are held times 3)
C7_MarkerInterpolates ==
    page.markers # None =>
      /\ locals.frame_count >= 1
      /\ page.markers.frame \in 0..(3 * locals.frame_count - 1)
      /\ LiesOnSegment(page.markers.selected, locals.selected_tel,
                       page.markers.frame, locals.frame_count)
      /\ LiesOnSegment(page.markers.fastest, locals.fastest_tel,
                       page.markers.frame, locals.frame_count)

\* a frame strictly between two different samples was plotted
C7_Witness ==
    /\ page.markers # None
    /\ page.markers.frame % 3 = 1
    /\ ValidSample(locals.selected_tel, page.markers.frame \div 3)
         # ValidSample(locals.selected_tel,
                       Min(page.markers.frame \div 3 + 1, locals.frame_count - 1))
    /\ page.markers.selected.x # 3 * ValidSample(locals.selected_tel,
                                       page.markers.frame \div 3).X

\* the run that a click on the button reading 'Pause Animation' starts while
\* is_playing is set, and that gets as far as the button
PauseRun ==
    /\ widgets.play = PlayLabel(TRUE)
    /\ session_state.is_playing
    /\ ClickPlayPause
    /\ page'.errors = {}
    /\ ~page'.uncaught

C9_CurrentFrameInRange ==
    page.slider_call # None =>
      /\ page.slider_call.max = 3 * locals.frame_count - 1
      /\ page.slider_call.value \in 0..page.slider_call.max

FailureFree == \A r \in Races : api[r].faults = {}

Distinct(tel) ==
    \A i, j \in 1..Len(tel) :
       tel[i].telemetry_index = tel[j].telemetry_index => i = j

\* C10: after one failure-free ingestion run each telemetry query of a render
\* run returns the samples of its lap once each: pairwise distinct
\* telemetry_index
C10_TelemetryOncePerSample ==
    FailureFree /\ runs = 1 =>
      /\ Distinct(locals.selected_tel)
      /\ Distinct(locals.fastest_tel)

\* the frames the play loop of the last run has drawn so far: what was
\* plotted after the first plot of line 290
LoopFrames == Tail(page.drawn)

\* the play loop of the last run has come to its end
LoopOver == app = "idle" /\ page.loop

\* the frames f0, f0+10, ... drawn so far, all below 3*frame_count, with
\* current_frame at the last of them
LoopDraws(f0) ==
    /\ \A i \in 1..Len(LoopFrames) :
         /\ LoopFrames[i] = f0 + PlayStep * (i - 1)
         /\ LoopFrames[i] < 3 * locals.frame_count
    /\ LoopFrames # << >> =>
         session_state.current_frame = LoopFrames[Len(LoopFrames)]
    /\ session_state.is_playing

====
